---------------------------- MODULE Spec2Model ----------------------------
(***************************************************************************)
(* Model of cuml/testing/strategies.py: the hypothesis strategies that     *)
(* generate shapes, arrays, datasets and train/test splits.                *)
(*                                                                         *)
(* A strategy is modelled by the set of values one draw can produce; the   *)
(* sampling engine is the nondeterministic choice among them.  One sample  *)
(* is requested at a time (pc = "idle" between samples); the body of a     *)
(* @composite function runs when a sample is drawn, one action per step.   *)
(* assume(False) ends the draw with outcome "rejected", a raised exception *)
(* ends it with the name of the exception.                                 *)
(***************************************************************************)
EXTENDS Integers, Sequences, FiniteSets, TLC

VARIABLES pc, gen, outcome, trace,
          datasets, X, y, synth, chosen,
          test_sizes, test_size, split,
          bounds, shape,
          input_type, dtype, arr_shape, order, array, result,
          meta, prev_chosen,
          call, env, imported, use,
          settings, created, lookup

vars == <<pc, gen, outcome, trace, datasets, X, y, synth, chosen,
          test_sizes, test_size, split, bounds, shape,
          input_type, dtype, arr_shape, order, array, result,
          meta, prev_chosen, call, env, imported, use,
          settings, created, lookup>>

splitVars  == <<test_sizes, test_size, split>>
dataVars   == <<datasets, X, y, synth, chosen>>
shapeVars  == <<bounds, shape>>
arrayVars  == <<input_type, dtype, arr_shape, order, array, result>>
combVars   == <<meta, prev_chosen>>
importVars == <<call, env, imported, use>>
holderVars == <<settings, created>>

---------------------------------------------------------------------------
(* Bounds of the model *)

MaxSamples  == 4      \* n_samples is drawn from 0..MaxSamples
MaxFeatures == 16     \* n_features is drawn from 0..MaxFeatures
MaxTargets  == 2      \* n_targets is drawn from 0..MaxTargets
FracDen     == 4      \* finite float test sizes are k / FracDen
MaxDimsArg  == 3      \* min_dims, max_dims are drawn from 0..MaxDimsArg
MaxSideArg  == 2      \* min_side, max_side are drawn from 0..MaxSideArg
ArrMaxSide  == 2      \* axis sizes of the shapes given to cuml_arrays
MaxObjects  == 2      \* GlobalSettings objects constructed in one run

---------------------------------------------------------------------------
(* Python helpers *)

Max(a, b) == IF a >= b THEN a ELSE b
Min(a, b) == IF a <= b THEN a ELSE b

\* int(a / b) for b > 0: truncation toward zero
IntTrunc(a, b) == IF a >= 0 THEN a \div b ELSE -((-a) \div b)

\* math.ceil(a / b) for b > 0
Ceil(a, b) == -((-a) \div b)

\* values that stand for "not set yet"
None      == -1
NoArr     == <<-1>>
NoSynth   == [n_samples |-> -1, n_features |-> -1,
              n_informative |-> -1, n_targets |-> -1]
NoSize    == [kind |-> "unset", num |-> 0, den |-> 1]
NoSplit   == [X_train |-> -1, X_test |-> -1, y_train |-> -1, y_test |-> -1]
NoBounds  == [min_dims |-> -1, max_dims |-> -1, min_side |-> -1, max_side |-> -1]
NoShape   == [isTuple |-> FALSE, dims |-> <<>>]
NoArray   == [dtype |-> "", shape |-> NoShape, order |-> ""]
NoResult  == [container |-> "", dtype |-> "", shape |-> NoShape, order |-> ""]
NoMeta    == [sources |-> {}, name |-> "", doc |-> ""]
NoCall    == [function |-> "", args |-> <<>>, msg |-> <<>>]
NoEnv     == [BUILT_WITH_CUDA |-> FALSE, import_module |-> "", getattr |-> ""]
NoImport  == [kind |-> "", of |-> "", msg |-> <<>>]
NoUse     == [how |-> "", name |-> "", msg |-> <<>>]
NoLookup  == [name |-> "", before |-> 0, returned |-> 0]

IsError(o) == o \in {"ValueError", "OverflowError", "TypeError"}

\* len(a) of an array of the given shape; a 0-d array has no len()
Sized(shp) == Len(shp) >= 1
len(shp)   == shp[1]

---------------------------------------------------------------------------
(* Strategies of the sampling engine, as the set of values of one draw *)

integers(lo, hi) == lo .. hi
just(v)          == {v}

\* The strategies a caller passes for n_samples, n_features and n_targets:
\* integers(min_value=0, max_value=200) of the defaults, cut at the bounds.
NSamples  == integers(0, MaxSamples)
NFeatures == integers(0, MaxFeatures)
NTargets  == integers(0, MaxTargets)

---------------------------------------------------------------------------
(* Dataset generators *)

\* standard_datasets: X of shape (xs, ys), y of shape (xs, n_targets)
standard_datasets(n_samples, n_features, n_targets) ==
    { [source |-> "standard_datasets",
       X |-> <<xs, ys>>, y |-> <<xs, nt>>, synth |-> NoSynth] :
         xs \in n_samples, ys \in n_features, nt \in n_targets }

\* numpy.squeeze: drops every axis of size 1
squeeze(shp) == SelectSeq(shp, LAMBDA d : d # 1)

\* sklearn.datasets.make_regression(coef=False): X is (n_samples,
\* n_features); y = squeeze(X @ ground_truth + bias), ground_truth being
\* (n_features, n_targets)
make_regression(ns, nf, ninf, nt) ==
    [X |-> <<ns, nf>>, y |-> squeeze(<<ns, nt>>)]

\* round(a / b) for a >= 0, b > 0, as Python rounds a float: to the nearest
\* integer, a tie to the even one
RoundHalfEven(a, b) ==
    LET q == a \div b
        r == a % b
    IN  IF 2 * r > b THEN q + 1
        ELSE IF 2 * r < b THEN q
        ELSE IF q % 2 = 0 THEN q ELSE q + 1

\* variant of default_n_informative: the 10% rounded instead of truncated
default_n_informative_rounded(nf) == Max(Min(nf, 1), RoundHalfEven(nf, 10))

\* variant of default_n_informative: the lower limit written as 1
default_n_informative_floor_one(nf) == Max(1, IntTrunc(nf, 10))

\* the default of n_informative: max(min(n_features_, 1), int(0.1 * n_features_))
default_n_informative(nf) == Max(Min(nf, 1), IntTrunc(nf, 10))

standard_regression_datasets(n_samples, n_features, n_targets) ==
    { [source |-> "standard_regression_datasets",
       X |-> make_regression(ns, nf, default_n_informative(nf), nt).X,
       y |-> make_regression(ns, nf, default_n_informative(nf), nt).y,
       synth |-> [n_samples |-> ns, n_features |-> nf,
                  n_informative |-> default_n_informative(nf),
                  n_targets |-> nt]] :
         ns \in n_samples, nf \in n_features, nt \in n_targets }

\* dataset(dtypes, n_samples, n_features): a source called with the shared
\* parameters only, its other parameters keep their defaults (n_targets = just(1))
DatasetSource(dataset, n_samples, n_features) ==
    CASE dataset = "standard_datasets" ->
            standard_datasets(n_samples, n_features, just(1))
      [] dataset = "standard_regression_datasets" ->
            standard_regression_datasets(n_samples, n_features, just(1))

\* variant of combined_datasets_strategy: only one of the sources is built
\* and drawn from
combined_datasets_strategy_first(sources, n_samples, n_features) ==
    DatasetSource(CHOOSE dataset \in sources : TRUE, n_samples, n_features)

\* combined_datasets_strategy(*datasets): every source is built with the
\* shared parameters and one_of draws from one of them
combined_datasets_strategy(sources, n_samples, n_features) ==
    UNION { DatasetSource(dataset, n_samples, n_features) : dataset \in sources }

regression_datasets(n_samples, n_features) ==
    combined_datasets_strategy({"standard_datasets", "standard_regression_datasets"},
                               n_samples, n_features)

DatasetGenerators ==
    {"standard_datasets", "standard_regression_datasets", "regression_datasets"}

\* the values one draw of the named datasets strategy can produce
Datasets(g) ==
    CASE g = "standard_datasets" ->
            standard_datasets(NSamples, NFeatures, NTargets)
      [] g = "standard_regression_datasets" ->
            standard_regression_datasets(NSamples, NFeatures, NTargets)
      [] g = "regression_datasets" ->
            regression_datasets(NSamples, NFeatures)

---------------------------------------------------------------------------
(* Initial state: nothing is being sampled *)

Init ==
    /\ pc = "idle" /\ gen = "none" /\ outcome = "none" /\ trace = <<>>
    /\ datasets = "none"
    /\ X = NoArr /\ y = NoArr /\ synth = NoSynth /\ chosen = "none"
    /\ test_sizes = "unset" /\ test_size = NoSize /\ split = NoSplit
    /\ bounds = NoBounds /\ shape = NoShape
    /\ input_type = "" /\ dtype = "" /\ arr_shape = NoShape /\ order = ""
    /\ array = NoArray /\ result = NoResult
    /\ meta = NoMeta /\ prev_chosen = "none"
    /\ call = NoCall /\ env = NoEnv /\ imported = NoImport /\ use = NoUse
    /\ settings = 0 /\ created = 0 /\ lookup = NoLookup

\* one sample of a datasets strategy, drawn on its own
DrawDataset ==
    /\ pc = "idle"
    /\ \E g \in DatasetGenerators : \E d \in Datasets(g) :
         /\ datasets' = g
         /\ X' = d.X /\ y' = d.y /\ synth' = d.synth /\ chosen' = d.source
    /\ gen' = "datasets" /\ pc' = "done" /\ outcome' = "returned"
    /\ UNCHANGED <<combVars, importVars, holderVars, lookup, trace, splitVars, shapeVars, arrayVars>>

---------------------------------------------------------------------------
(* split_datasets *)

\* what the caller passes as test_sizes: None (the default), or a strategy
\* of integers, of floats, or of None values
TestSizesArgs == {"None", "integers", "floats", "nones"}

IntSize(k)    == [kind |-> "int", num |-> k, den |-> 1]
FloatSize(k)  == [kind |-> "float", num |-> k, den |-> FracDen]
NaN           == [kind |-> "nan", num |-> 0, den |-> 1]
Infinity      == [kind |-> "inf", num |-> 0, den |-> 1]
NoneSize      == [kind |-> "none", num |-> 0, den |-> 1]

\* isinstance(test_size, float) / isinstance(test_size, int)
IsFloat(ts) == ts.kind \in {"float", "nan", "inf"}
IsInt(ts)   == ts.kind = "int"

\* the values draw(test_sizes) can produce for a dataset of n rows
TestSizes(arg, n) ==
    CASE arg = "None"     -> { IntSize(k) : k \in integers(1, Max(1, n - 1)) }
      [] arg = "integers" -> { IntSize(k) : k \in integers(-1, MaxSamples + 1) }
      [] arg = "floats"   -> { FloatSize(k) : k \in integers(-1, FracDen + 1) }
                               \cup {NaN, Infinity}
      [] arg = "nones"    -> { NoneSize }

\* int(len(X) * test_size) of a float test_size: int() of a NaN raises
\* ValueError, of an infinity OverflowError
IntOfProduct(n, ts) ==
    CASE ts.kind = "nan" -> [exc |-> "ValueError", val |-> 0]
      [] ts.kind = "inf" -> [exc |-> "OverflowError", val |-> 0]
      [] OTHER           -> [exc |-> "", val |-> IntTrunc(n * ts.num, ts.den)]

\* 1.0 - test_size
OneMinus(ts) == IF ts.kind = "float" THEN [ts EXCEPT !.num = ts.den - ts.num]
                                     ELSE ts

\* variant of CheckTestSize: the integer check written 1 <= test_size
CheckTestSizeInclusive(n, ts) ==
    IF IsFloat(ts) THEN
        IF IntOfProduct(n, ts).exc # "" THEN IntOfProduct(n, ts).exc
        ELSE IF ~(IntOfProduct(n, ts).val > 0) THEN "rejected"
        ELSE IF IntOfProduct(n, OneMinus(ts)).exc # ""
             THEN IntOfProduct(n, OneMinus(ts)).exc
        ELSE IF ~(IntOfProduct(n, OneMinus(ts)).val > 0) THEN "rejected"
        ELSE "ok"
    ELSE IF IsInt(ts) THEN
        IF 1 <= ts.num /\ ts.num < n THEN "ok" ELSE "rejected"
    ELSE "ok"

\* the checks of the drawn test_size: "ok", "rejected" or the exception
CheckTestSize(n, ts) ==
    IF IsFloat(ts) THEN
        IF IntOfProduct(n, ts).exc # "" THEN IntOfProduct(n, ts).exc
        ELSE IF ~(IntOfProduct(n, ts).val > 0) THEN "rejected"
        ELSE IF IntOfProduct(n, OneMinus(ts)).exc # ""
             THEN IntOfProduct(n, OneMinus(ts)).exc
        ELSE IF ~(IntOfProduct(n, OneMinus(ts)).val > 0) THEN "rejected"
        ELSE "ok"
    ELSE IF IsInt(ts) THEN
        IF 1 < ts.num /\ ts.num < n THEN "ok" ELSE "rejected"
    ELSE "ok"

\* variant of ValidateShuffleSplit: both sizes of a float test_size are
\* truncated, n_test = int(test_size * n), n_train = int((1 - test_size) * n)
ValidateShuffleSplitTruncated(n, ts0) ==
    LET ts == IF ts0.kind = "none" THEN [kind |-> "float", num |-> 1, den |-> 4]
                                   ELSE ts0
        bad == \/ ts.kind = "int" /\ (ts.num >= n \/ ts.num <= 0)
               \/ ts.kind = "float" /\ (ts.num <= 0 \/ ts.num >= ts.den)
               \/ ts.kind \in {"nan", "inf"}
        n_test  == IF ts.kind = "float" THEN IntTrunc(ts.num * n, ts.den)
                                        ELSE ts.num
        n_train == IF ts.kind = "float"
                     THEN IntTrunc((ts.den - ts.num) * n, ts.den)
                     ELSE n - n_test
    IN  IF bad \/ n_train = 0
        THEN [exc |-> "ValueError", n_train |-> -1, n_test |-> -1]
        ELSE [exc |-> "", n_train |-> n_train, n_test |-> n_test]

\* sklearn _validate_shuffle_split(n_samples, test_size, train_size=None,
\* default_test_size=0.25): the sizes (n_train, n_test) or a ValueError
ValidateShuffleSplit(n, ts0) ==
    LET ts == IF ts0.kind = "none" THEN [kind |-> "float", num |-> 1, den |-> 4]
                                   ELSE ts0
        bad == \/ ts.kind = "int" /\ (ts.num >= n \/ ts.num <= 0)
               \/ ts.kind = "float" /\ (ts.num <= 0 \/ ts.num >= ts.den)
               \/ ts.kind \in {"nan", "inf"}
        n_test  == IF ts.kind = "float" THEN Ceil(ts.num * n, ts.den) ELSE ts.num
        n_train == n - n_test
    IN  IF bad \/ n_train = 0
        THEN [exc |-> "ValueError", n_train |-> -1, n_test |-> -1]
        ELSE [exc |-> "", n_train |-> n_train, n_test |-> n_test]

\* sklearn train_test_split(X, y, test_size=test_size): the lengths of
\* (X_train, X_test, y_train, y_test), X and y being cut at the same rows
train_test_split(Xs, ys, ts) ==
    IF ~Sized(ys) THEN [exc |-> "TypeError", val |-> NoSplit]
    ELSE IF len(Xs) # len(ys) THEN [exc |-> "ValueError", val |-> NoSplit]
    ELSE LET v == ValidateShuffleSplit(len(Xs), ts)
         IN  [exc |-> v.exc,
              val |-> IF v.exc # "" THEN NoSplit
                      ELSE [X_train |-> v.n_train, X_test |-> v.n_test,
                            y_train |-> v.n_train, y_test |-> v.n_test]]

\* X, y = draw(datasets)
SplitDrawDataset ==
    /\ pc = "idle"
    /\ \E g \in DatasetGenerators, a \in TestSizesArgs : \E d \in Datasets(g) :
         /\ datasets' = g /\ test_sizes' = a
         /\ X' = d.X /\ y' = d.y /\ synth' = d.synth /\ chosen' = d.source
    /\ gen' = "split_datasets" /\ pc' = "split_check_rows"
    /\ trace' = <<"draw_dataset">>
    /\ UNCHANGED <<combVars, importVars, holderVars, lookup, outcome, test_size, split, shapeVars, arrayVars>>

\* variant of SplitCheckRows: the row count is looked at but never rejects
SplitCheckRowsNoReject ==
    /\ pc = "split_check_rows"
    /\ trace' = Append(trace, "check_rows")
    /\ pc' = "split_draw_test_size"
    /\ UNCHANGED <<combVars, importVars, holderVars, lookup, gen, outcome, dataVars, splitVars, shapeVars, arrayVars>>

\* assume(len(X) > 1)
SplitCheckRows ==
    /\ pc = "split_check_rows"
    /\ trace' = Append(trace, "check_rows")
    /\ IF len(X) > 1
         THEN pc' = "split_draw_test_size" /\ UNCHANGED outcome
         ELSE pc' = "done" /\ outcome' = "rejected"
    /\ UNCHANGED <<combVars, importVars, holderVars, lookup, gen, dataVars, splitVars, shapeVars, arrayVars>>

\* test_sizes defaults to integers(1, max(1, len(X) - 1)); test_size = draw(test_sizes)
SplitDrawTestSize ==
    /\ pc = "split_draw_test_size"
    /\ \E ts \in TestSizes(test_sizes, len(X)) : test_size' = ts
    /\ trace' = Append(trace, "draw_test_size")
    /\ pc' = "split_check_test_size"
    /\ UNCHANGED <<combVars, importVars, holderVars, lookup, gen, outcome, dataVars, test_sizes, split, shapeVars, arrayVars>>

\* the assume() checks of the drawn test_size
SplitCheckTestSize ==
    /\ pc = "split_check_test_size"
    /\ trace' = Append(trace, "check_test_size")
    /\ IF CheckTestSize(len(X), test_size) = "ok"
         THEN pc' = "split_partition" /\ UNCHANGED outcome
         ELSE pc' = "done" /\ outcome' = CheckTestSize(len(X), test_size)
    /\ UNCHANGED <<combVars, importVars, holderVars, lookup, gen, dataVars, splitVars, shapeVars, arrayVars>>

\* return train_test_split(X, y, test_size=test_size)
SplitPartition ==
    /\ pc = "split_partition"
    /\ trace' = Append(trace, "partition")
    /\ LET r == train_test_split(X, y, test_size)
       IN  /\ split' = r.val
           /\ outcome' = IF r.exc # "" THEN r.exc ELSE "returned"
    /\ pc' = "done"
    /\ UNCHANGED <<combVars, importVars, holderVars, lookup, gen, dataVars, test_sizes, test_size, shapeVars, arrayVars>>

---------------------------------------------------------------------------
(* cuml_array_shapes *)

DefaultMaxSide == 10

\* hypothesis.extra.numpy.array_shapes: the tuples of min_dims..max_dims
\* axes, every axis in min_side..max_side
array_shapes(min_dims, max_dims, min_side, max_side) ==
    UNION { [1 .. d -> min_side .. max_side] : d \in min_dims .. max_dims }

Tuple(dims) == [isTuple |-> TRUE, dims |-> dims]

\* the arguments a caller can pass; max_side = None is the default
BoundsArgs ==
    [min_dims : 0 .. MaxDimsArg, max_dims : 0 .. MaxDimsArg,
     min_side : 0 .. MaxSideArg, max_side : {None} \cup (0 .. MaxSideArg)]

\* max_side = 10 if max_side is None else max_side
DefaultedMaxSide(b) == IF b.max_side = None THEN DefaultMaxSide ELSE b.max_side

\* variant of BoundsValid: the side check written min_side <= max_side
BoundsValidLoose(b) ==
    /\ 1 <= b.min_dims /\ b.min_dims <= b.max_dims
    /\ 0 < b.min_side /\ b.min_side <= DefaultedMaxSide(b)

\* the two checks of the body; TRUE when neither raises
BoundsValid(b) ==
    /\ 1 <= b.min_dims /\ b.min_dims <= b.max_dims
    /\ 0 < b.min_side /\ b.min_side < DefaultedMaxSide(b)

\* the body of cuml_array_shapes: the outcomes of one draw
cuml_array_shapes(b) ==
    IF ~BoundsValid(b)
    THEN { [exc |-> "ValueError", shape |-> NoShape] }
    ELSE { [exc |-> "", shape |-> Tuple(t)] :
             t \in array_shapes(b.min_dims, b.max_dims,
                                b.min_side, DefaultedMaxSide(b)) }

\* variant of ShapesConstruct: a plain function that checks its arguments
\* when it is called
ShapesConstructEager ==
    /\ pc = "idle"
    /\ \E b \in BoundsArgs :
         /\ bounds' = b
         /\ IF BoundsValid(b)
              THEN pc' = "shapes_constructed" /\ UNCHANGED outcome
              ELSE pc' = "done" /\ outcome' = "ValueError"
    /\ gen' = "cuml_array_shapes" /\ trace' = <<"construct">>
    /\ UNCHANGED <<combVars, importVars, holderVars, lookup, dataVars, splitVars, shape, arrayVars>>

\* cuml_array_shapes(min_dims=.., ...) is called: @composite returns the
\* strategy and stores the arguments, the body does not run
ShapesConstruct ==
    /\ pc = "idle"
    /\ \E b \in BoundsArgs : bounds' = b
    /\ gen' = "cuml_array_shapes" /\ pc' = "shapes_constructed"
    /\ trace' = <<"construct">>
    /\ UNCHANGED <<combVars, importVars, holderVars, lookup, outcome, dataVars, splitVars, shape, arrayVars>>

\* a sample is drawn from the strategy: the body runs
ShapesDraw ==
    /\ pc = "shapes_constructed"
    /\ \E r \in cuml_array_shapes(bounds) :
         /\ shape' = r.shape
         /\ outcome' = IF r.exc # "" THEN r.exc ELSE "returned"
    /\ pc' = "done" /\ trace' = Append(trace, "draw")
    /\ UNCHANGED <<combVars, importVars, holderVars, lookup, gen, dataVars, splitVars, bounds, arrayVars>>

---------------------------------------------------------------------------
(* create_cuml_array_input and cuml_arrays *)

_CUML_ARRAY_INPUT_TYPES == {"numpy", "cupy", "series", "None"}

_CUML_ARRAY_DTYPES ==
    {"float16", "float32", "float64", "int8", "int16", "int32", "int64",
     "uint8", "uint16", "uint32", "uint64"}

_CUML_ARRAY_ORDERS == {"F", "C"}

_UNSUPPORTED_CUDF_DTYPES == {"uint8", "uint16", "uint32", "uint64", "float16"}

\* container kinds a caller can ask for: the recognised ones and two others
InputTypeArgs == _CUML_ARRAY_INPUT_TYPES \cup {"dataframe", "numba"}

\* the shapes a caller can ask for: tuples of 1 or 2 axes, or a plain int
ShapeArgs ==
    { Tuple(t) : t \in array_shapes(1, 2, 1, ArrMaxSide) }
      \cup { [isTuple |-> FALSE, dims |-> <<n>>] : n \in 1 .. ArrMaxSide }

\* isinstance(shape, tuple) and len([d for d in shape if d > 1]) > 1
multidimensional(shp) ==
    shp.isTuple /\ Cardinality({ i \in DOMAIN shp.dims : shp.dims[i] > 1 }) > 1

\* variant of SeriesAssumption: "and" in place of "or"
SeriesAssumptionBoth(it, dt, shp) ==
    ~(it = "series" /\ (dt \in _UNSUPPORTED_CUDF_DTYPES /\ multidimensional(shp)))

\* the condition handed to assume()
SeriesAssumption(it, dt, shp) ==
    ~(it = "series" /\ (dt \in _UNSUPPORTED_CUDF_DTYPES \/ multidimensional(shp)))

\* variant of Dispatch: the last branch tests 'cupy' only
DispatchCupyOnly(it) ==
    CASE it = "numpy"  -> "numpy"
      [] it = "series" -> "series"
      [] it = "cupy"   -> "cupy"
      [] OTHER         -> ""

\* the if / elif chain after the array is built: the container returned,
\* or "" when no branch matches
Dispatch(it) ==
    CASE it = "numpy"               -> "numpy"
      [] it = "series"              -> "series"
      [] it = "None" \/ it = "cupy" -> "cupy"
      [] OTHER                      -> ""

\* draw(input_types), draw(dtypes), draw(shapes), draw(orders)
ArraysDraw ==
    /\ pc = "idle"
    /\ \E it \in InputTypeArgs, dt \in _CUML_ARRAY_DTYPES,
          shp \in ShapeArgs, o \in _CUML_ARRAY_ORDERS :
         input_type' = it /\ dtype' = dt /\ arr_shape' = shp /\ order' = o
    /\ gen' = "cuml_arrays" /\ pc' = "arrays_assume"
    /\ UNCHANGED <<combVars, importVars, holderVars, lookup, outcome, trace, dataVars, splitVars, shapeVars, array, result>>

\* assume(not (input_type == "series" and (...)))
ArraysAssume ==
    /\ pc = "arrays_assume"
    /\ IF SeriesAssumption(input_type, dtype, arr_shape)
         THEN pc' = "arrays_build" /\ UNCHANGED outcome
         ELSE pc' = "done" /\ outcome' = "rejected"
    /\ UNCHANGED <<combVars, importVars, holderVars, lookup, gen, trace, dataVars, splitVars, shapeVars, arrayVars>>

\* array = cp.ones(shape, dtype=dtype, order=order)
ArraysBuild ==
    /\ pc = "arrays_build"
    /\ array' = [dtype |-> dtype, shape |-> arr_shape, order |-> order]
    /\ pc' = "arrays_dispatch"
    /\ UNCHANGED <<combVars, importVars, holderVars, lookup, gen, outcome, trace, dataVars, splitVars, shapeVars,
                   input_type, dtype, arr_shape, order, result>>

\* the container is returned, or ValueError("Unknown input_type") is raised
ArraysDispatch ==
    /\ pc = "arrays_dispatch"
    /\ IF Dispatch(input_type) # ""
         THEN /\ result' = [container |-> Dispatch(input_type),
                            dtype |-> array.dtype, shape |-> array.shape,
                            order |-> array.order]
              /\ outcome' = "returned"
         ELSE /\ outcome' = "ValueError"
              /\ UNCHANGED result
    /\ pc' = "done"
    /\ UNCHANGED <<combVars, importVars, holderVars, lookup, gen, trace, dataVars, splitVars, shapeVars,
                   input_type, dtype, arr_shape, order, array>>

---------------------------------------------------------------------------
(* A strategy built by combined_datasets_strategy, sampled repeatedly *)

DatasetFunctions == {"standard_datasets", "standard_regression_datasets"}

\* the docstring of the inner strategy function
DefaultDoc == "Datasets strategy composed of multiple datasets strategies."

\* strategy.__name__ = "datasets" if name is None else name;
\* strategy.__doc__ = doc if doc is not None
Metadata(sources, name, doc) ==
    [sources |-> sources,
     name    |-> IF name = "None" THEN "datasets" ELSE name,
     doc     |-> IF doc = "None" THEN DefaultDoc ELSE doc]

\* the values one draw of the built strategy can produce
CombinedValues(m) == combined_datasets_strategy(m.sources, NSamples, NFeatures)

\* combined_datasets_strategy(*datasets, name=.., doc=..)(): the strategy
\* is built, nothing is drawn
CombinedConstruct ==
    /\ pc = "idle"
    /\ \E sources \in (SUBSET DatasetFunctions) \ {{}},
          name \in {"None", "regression_datasets"},
          doc \in {"None", "Returns strategy for regression datasets."} :
         meta' = Metadata(sources, name, doc)
    /\ gen' = "combined" /\ datasets' = "combined" /\ pc' = "combined_ready"
    /\ UNCHANGED <<outcome, trace, X, y, synth, chosen, prev_chosen,
                   splitVars, shapeVars, arrayVars, importVars, holderVars, lookup>>

\* one sample of the built strategy: draw(one_of(datasets_strategies))
CombinedDraw ==
    /\ pc \in {"combined_ready", "combined_drawn"}
    /\ \E d \in CombinedValues(meta) :
         X' = d.X /\ y' = d.y /\ synth' = d.synth /\ chosen' = d.source
    /\ prev_chosen' = chosen
    /\ pc' = "combined_drawn" /\ outcome' = "returned"
    /\ UNCHANGED <<gen, trace, datasets, meta,
                   splitVars, shapeVars, arrayVars, importVars, holderVars, lookup>>

\* the test is done with the strategy
CombinedDone ==
    /\ pc = "combined_drawn"
    /\ pc' = "done"
    /\ UNCHANGED <<gen, outcome, trace, dataVars, combVars,
                   splitVars, shapeVars, arrayVars, importVars, holderVars, lookup>>

---------------------------------------------------------------------------
(* cuml/common/import_utils.py *)

\* what the interpreter finds when the module is imported and when the
\* symbol is looked up in it: success or the exception raised.
\* KeyboardInterrupt and SystemExit derive from BaseException only.
ImportOutcomes == {"ok", "ImportError", "RuntimeError",
                   "KeyboardInterrupt", "SystemExit"}
GetattrOutcomes == {"ok", "AttributeError"}

Environments ==
    [BUILT_WITH_CUDA : BOOLEAN,
     import_module : ImportOutcomes, getattr : GetattrOutcomes]

\* issubclass(exc, Exception): what "except Exception" catches
IsException(exc) ==
    exc \in {"ImportError", "RuntimeError", "AttributeError", "TypeError"}

ModuleNames == {"numba", "cupy"}
SymbolNames == {"cuda"}

\* msg=None, or a message supplied by the caller
NoMsg  == <<>>
MsgArgs == {NoMsg, <<"install the GPU packages">>}

Returned(v) == [exc |-> "", val |-> v]
Raised(e)   == [exc |-> e, val |-> NoImport]

\* importlib.import_module(module)
import_module(module, e) ==
    IF e.import_module = "ok"
    THEN Returned([kind |-> "module", of |-> <<module>>, msg |-> <<>>])
    ELSE Raised(e.import_module)

\* getattr(imported_module, symbol)
getattr(module, symbol, e) ==
    IF e.getattr = "ok"
    THEN Returned([kind |-> "symbol", of |-> <<module, ".", symbol>>, msg |-> <<>>])
    ELSE Raised(e.getattr)

\* MissingImport.__init__(symbol, msg=None)
MissingImport(symbol, msg) ==
    [kind |-> "missing", of |-> symbol,
     msg  |-> IF msg = NoMsg THEN symbol \o <<" could not be imported">>
                             ELSE msg]

\* variant of safe_import: "except ImportError"
safe_import_narrow(module, msg, e) ==
    LET r == import_module(module, e)
    IN  IF r.exc = "ImportError"
        THEN Returned(MissingImport(<<module>>, msg))
        ELSE r

\* safe_import(module, msg=None): try / except Exception
safe_import(module, msg, e) ==
    LET r == import_module(module, e)
    IN  IF r.exc # "" /\ IsException(r.exc)
        THEN Returned(MissingImport(<<module>>, msg))
        ELSE r

\* safe_import_from(module, symbol, msg=None): try / except Exception
safe_import_from(module, symbol, msg, e) ==
    LET r == import_module(module, e)
        g == IF r.exc = "" THEN getattr(module, symbol, e) ELSE r
    IN  IF g.exc # "" /\ IsException(g.exc)
        THEN Returned(MissingImport(<<module, ".", symbol>>, msg))
        ELSE g

\* def gpu_only_import(self, module): two positional parameters
gpu_only_import_params == <<"self", "module">>

\* gpu_only_import(*args): a call with the wrong number of arguments raises
\* TypeError before the body runs; the body reads its second parameter
gpu_only_import(args, e) ==
    IF Len(args) # Len(gpu_only_import_params) THEN Raised("TypeError")
    ELSE LET module == args[2]
         IN  IF e.BUILT_WITH_CUDA
             THEN import_module(module, e)
             ELSE safe_import(module,
                    <<module, " is not installed in CPU-only installations">>, e)

\* the calls a program can make
Calls ==
    { [function |-> "safe_import", args |-> <<m>>, msg |-> msg] :
        m \in ModuleNames, msg \in MsgArgs }
    \cup { [function |-> "safe_import_from", args |-> <<m, sy>>, msg |-> msg] :
        m \in ModuleNames, sy \in SymbolNames, msg \in MsgArgs }
    \cup { [function |-> "gpu_only_import", args |-> <<m>>, msg |-> NoMsg] :
        m \in ModuleNames }
    \cup { [function |-> "gpu_only_import", args |-> <<"None", m>>, msg |-> NoMsg] :
        m \in ModuleNames }

Invoke(c, e) ==
    CASE c.function = "safe_import" -> safe_import(c.args[1], c.msg, e)
      [] c.function = "safe_import_from" ->
            safe_import_from(c.args[1], c.args[2], c.msg, e)
      [] c.function = "gpu_only_import" -> gpu_only_import(c.args, e)

\* one of the import functions is called
ImportCall ==
    /\ pc = "idle"
    /\ \E c \in Calls, e \in Environments :
         /\ call' = c /\ env' = e
         /\ imported' = Invoke(c, e).val
         /\ IF Invoke(c, e).exc # ""
              THEN pc' = "done" /\ outcome' = Invoke(c, e).exc
              ELSE pc' = "imported" /\ UNCHANGED outcome
    /\ gen' = "import" /\ use' = NoUse
    /\ UNCHANGED <<trace, dataVars, combVars, splitVars, shapeVars, arrayVars,
                   holderVars, lookup>>

\* attribute names a program can ask of the returned object
AttrNames == {"__version__", "jit", "_msg", "__class__"}

\* names that the ordinary lookup finds on a MissingImport, so that its
\* __getattr__ is not called: the instance's _msg, the attributes of object
FoundOnPlaceholder == {"_msg", "__class__"}

\* placeholder.<name>: __getattr__ raises UnavailableImportError(self._msg)
PlaceholderGetattr(name) ==
    IF name \in FoundOnPlaceholder THEN "returned" ELSE "UnavailableImportError"

\* the uses a program can make of the returned object
Uses == { [how |-> "getattr", name |-> n] : n \in AttrNames }
          \cup { [how |-> "call", name |-> ""] }

\* the returned object is used: an attribute is read or it is called
UseImported ==
    /\ pc = "imported"
    /\ \E u \in Uses :
         IF imported.kind = "missing"
         THEN LET o == IF u.how = "call" THEN "UnavailableImportError"
                                         ELSE PlaceholderGetattr(u.name)
              IN  /\ outcome' = o
                  /\ use' = [how |-> u.how, name |-> u.name,
                             msg |-> IF o = "UnavailableImportError"
                                       THEN imported.msg ELSE <<>>]
         ELSE /\ outcome' = "returned"
              /\ use' = [how |-> u.how, name |-> u.name, msg |-> <<>>]
    /\ pc' = "done"
    /\ UNCHANGED <<gen, trace, dataVars, combVars, splitVars, shapeVars,
                   arrayVars, call, env, imported, holderVars, lookup>>

---------------------------------------------------------------------------
(* cuml.__getattr__ and the settings holder *)

\* names looked up on the package that none of its attributes resolves
LookupNames == {"global_settings", "settings", "GlobalSetting"}

\* _global_settings_data.settings: 0 when the holder has no such attribute,
\* otherwise the identity of the stored GlobalSettings object
Absent == 0

\* GlobalSettings(): the c-th object constructed so far has identity c
GlobalSettings(c) == c + 1

\* variant of __getattr__: the settings are constructed on every lookup
__getattr__fresh(name, s, c) ==
    IF name = "global_settings"
    THEN [exc |-> "", returned |-> GlobalSettings(c),
          settings |-> GlobalSettings(c), created |-> c + 1]
    ELSE [exc |-> "AttributeError", returned |-> 0, settings |-> s, created |-> c]

\* __getattr__(name) with the holder's attribute s and c objects constructed
__getattr__(name, s, c) ==
    IF name = "global_settings"
    THEN IF s # Absent
         THEN [exc |-> "", returned |-> s, settings |-> s, created |-> c]
         ELSE [exc |-> "", returned |-> GlobalSettings(c),
               settings |-> GlobalSettings(c), created |-> c + 1]
    ELSE [exc |-> "AttributeError", returned |-> 0, settings |-> s, created |-> c]

\* an attribute lookup on the package falls through to __getattr__
ModuleGetattr ==
    /\ pc = "idle"
    /\ \E name \in LookupNames :
         LET r == __getattr__(name, settings, created)
         IN  /\ r.created <= MaxObjects
             /\ lookup' = [name |-> name, before |-> settings,
                           returned |-> r.returned]
             /\ settings' = r.settings /\ created' = r.created
             /\ outcome' = IF r.exc = "" THEN "returned" ELSE r.exc
    /\ gen' = "getattr" /\ pc' = "done"
    /\ UNCHANGED <<trace, dataVars, combVars, splitVars, shapeVars, arrayVars,
                   importVars>>

\* the sample is handed to the test; the next request starts afresh
Finish ==
    /\ pc = "done"
    /\ pc' = "idle" /\ gen' = "none" /\ outcome' = "none" /\ trace' = <<>>
    /\ datasets' = "none"
    /\ X' = NoArr /\ y' = NoArr /\ synth' = NoSynth /\ chosen' = "none"
    /\ test_sizes' = "unset" /\ test_size' = NoSize /\ split' = NoSplit
    /\ bounds' = NoBounds /\ shape' = NoShape
    /\ input_type' = "" /\ dtype' = "" /\ arr_shape' = NoShape /\ order' = ""
    /\ array' = NoArray /\ result' = NoResult
    /\ meta' = NoMeta /\ prev_chosen' = "none"
    /\ call' = NoCall /\ env' = NoEnv /\ imported' = NoImport /\ use' = NoUse
    /\ lookup' = NoLookup
    /\ UNCHANGED holderVars

---------------------------------------------------------------------------
Next ==
    \/ DrawDataset
    \/ SplitDrawDataset \/ SplitCheckRows \/ SplitDrawTestSize
    \/ SplitCheckTestSize \/ SplitPartition
    \/ ShapesConstruct \/ ShapesDraw
    \/ ArraysDraw \/ ArraysAssume \/ ArraysBuild \/ ArraysDispatch
    \/ CombinedConstruct \/ CombinedDraw \/ CombinedDone
    \/ ImportCall \/ UseImported
    \/ ModuleGetattr
    \/ Finish

Spec == Init /\ [][Next]_vars

---------------------------------------------------------------------------
(* Properties of split_datasets *)

InSplit     == gen = "split_datasets"
Has(step)   == \E i \in DOMAIN trace : trace[i] = step
SizeChecked == InSplit /\ Has("check_test_size")

\* C1: every split that split_datasets returns for an integer or a float
\* test_size has at least one train row, at least one test row, and the two
\* parts together have len(X) rows.
C1_SplitSizes ==
    (InSplit /\ outcome = "returned" /\ test_size.kind \in {"int", "float"}) =>
        /\ split.X_train >= 1
        /\ split.X_test >= 1
        /\ split.X_train + split.X_test = len(X)

\* a 3-row dataset split with the float test size 2/4: 1 train row, 2 test rows
C1_Witness ==
    /\ InSplit /\ outcome = "returned"
    /\ test_size = FloatSize(2) /\ len(X) = 3
    /\ split.X_train = 1 /\ split.X_test = 2

\* C2: a dataset of exactly 2 rows with the default test_sizes always yields
\* a split of 1 train row and 1 test row.
C2_TwoRowsDefault ==
    (InSplit /\ pc = "done" /\ test_sizes = "None" /\ len(X) = 2) =>
        /\ outcome = "returned"
        /\ split.X_train = 1 /\ split.X_test = 1

\* C3: with the default test_sizes every drawn test size of a dataset with
\* more than one row passes the size check and a split is returned.
C3_DefaultSizesValid ==
    (InSplit /\ test_sizes = "None" /\ len(X) > 1 /\ test_size # NoSize) =>
        /\ SizeChecked => Has("partition") \/ pc = "split_partition"
        /\ pc = "done" => outcome = "returned"

\* the size check as the claim words it: floor() of the products, a 
\* comparison with NaN being false
FloorPositive(n, num, den) == (n * num) \div den > 0

PassesSizeCheck(n, ts) ==
    \/ ts.kind = "int" /\ 1 < ts.num /\ ts.num < n
    \/ ts.kind = "float" /\ FloorPositive(n, ts.num, ts.den)
                         /\ FloorPositive(n, ts.den - ts.num, ts.den)

Accepted == Has("partition") \/ pc = "split_partition"

Steps == <<"draw_dataset", "check_rows", "draw_test_size",
           "check_test_size", "partition">>

\* C5: the steps of a draw are, in this order, draw dataset, check row
\* count, draw test_size, check test_size, partition; a dataset of at most
\* one row is rejected at the row check, with no test_size drawn and no
\* partition made.
C5_StepOrder ==
    InSplit =>
        /\ \E k \in 1 .. Len(Steps) : trace = SubSeq(Steps, 1, k)
        /\ (len(X) <= 1 /\ Has("check_rows")) =>
              /\ trace = <<"draw_dataset", "check_rows">>
              /\ pc = "done" /\ outcome = "rejected"
              /\ test_size = NoSize /\ split = NoSplit

\* a 1-row dataset rejected at the row check
C5_Witness ==
    /\ InSplit /\ pc = "done" /\ len(X) = 1
    /\ outcome = "rejected" /\ trace = <<"draw_dataset", "check_rows">>

---------------------------------------------------------------------------
(* Properties of cuml_array_shapes *)

InShapes == gen = "cuml_array_shapes"

\* the bounds as the claims word them, max_side defaulted to 10
SideLimit(b)  == IF b.max_side = None THEN 10 ELSE b.max_side
BoundsLegal(b) ==
    /\ 1 <= b.min_dims /\ b.min_dims <= b.max_dims
    /\ 0 < b.min_side /\ b.min_side < SideLimit(b)

\* C6 as stated: invalid bounds are reported when the generator is
\* constructed, before any sample is drawn from it.
C6_ErrorAtConstruction ==
    (InShapes /\ ~BoundsLegal(bounds) /\ trace = <<"construct">>) =>
        outcome = "ValueError"

\* C6 as amended: constructing the generator reports nothing, whatever the
\* bounds; invalid bounds are reported by the first draw, which raises the
\* error before a shape is drawn.
C6_ErrorAtFirstDraw ==
    InShapes =>
        /\ trace = <<"construct">> => outcome = "none" /\ shape = NoShape
        /\ outcome = "ValueError" => trace = <<"construct", "draw">>
        /\ (~BoundsLegal(bounds) /\ trace = <<"construct", "draw">>) =>
              outcome = "ValueError" /\ shape = NoShape

\* min_dims=3, max_dims=2: the error comes out of the draw
C6_Witness ==
    /\ InShapes /\ bounds.min_dims = 3 /\ bounds.max_dims = 2
    /\ trace = <<"construct", "draw">> /\ outcome = "ValueError"

\* C7: a draw raises ValueError exactly when the bounds, max_side defaulted
\* to 10, violate 1 <= min_dims <= max_dims or 0 < min_side < max_side;
\* otherwise it returns a shape of min_dims..max_dims axes, each in
\* min_side..max_side.
C7_ErrorIffIllegal ==
    (InShapes /\ pc = "done") =>
        IF BoundsLegal(bounds)
        THEN /\ outcome = "returned" /\ shape.isTuple
             /\ bounds.min_dims <= Len(shape.dims)
             /\ Len(shape.dims) <= bounds.max_dims
             /\ \A i \in DOMAIN shape.dims :
                    bounds.min_side <= shape.dims[i]
                      /\ shape.dims[i] <= SideLimit(bounds)
        ELSE outcome = "ValueError" /\ shape = NoShape

\* min_side equal to max_side is an error
C7_Witness ==
    /\ InShapes /\ pc = "done"
    /\ bounds.min_dims = 1 /\ bounds.max_dims = 2
    /\ bounds.min_side = 2 /\ bounds.max_side = 2
    /\ outcome = "ValueError"

---------------------------------------------------------------------------
(* Properties of create_cuml_array_input *)

InArrays == gen = "cuml_arrays"

Unsupported == {"uint8", "uint16", "uint32", "uint64", "float16"}
BigAxes(shp) == Cardinality({ i \in DOMAIN shp.dims : shp.dims[i] > 1 })

\* C8: a returned 'series' array has a supported dtype and at most one axis
\* of size > 1; a 'series' request with an unsupported dtype or with more
\* than one axis of size > 1 is rejected before any array is built.
C8_SeriesFiltered ==
    InArrays =>
        /\ (outcome = "returned" /\ result.container = "series") =>
              result.dtype \notin Unsupported /\ BigAxes(result.shape) <= 1
        /\ (input_type = "series" /\ pc # "arrays_assume"
              /\ (dtype \in Unsupported \/ BigAxes(arr_shape) > 1)) =>
              /\ pc = "done" /\ outcome = "rejected"
              /\ array = NoArray /\ result = NoResult

\* 'series' with float16 and a one-axis shape is rejected
C8_Witness ==
    /\ InArrays /\ pc = "done" /\ input_type = "series"
    /\ dtype = "float16" /\ BigAxes(arr_shape) <= 1
    /\ outcome = "rejected" /\ array = NoArray

\* C9: a container kind outside {numpy, cupy, series, None} ends in
\* ValueError, never in a rejection or a returned array; none of the four
\* recognised kinds raises it.
C9_UnknownKindRaises ==
    (InArrays /\ pc = "done") =>
        IF input_type \in {"numpy", "cupy", "series", "None"}
        THEN outcome \in {"returned", "rejected"}
        ELSE outcome = "ValueError" /\ result = NoResult

\* an unrecognised kind with a dtype and shape that 'series' would reject
C9_Witness ==
    /\ InArrays /\ pc = "done" /\ input_type = "dataframe"
    /\ dtype = "float16" /\ BigAxes(arr_shape) > 1
    /\ outcome = "ValueError"

---------------------------------------------------------------------------
(* Properties of the dataset generators *)

InDatasets == gen = "datasets" /\ pc = "done"

\* C10: every dataset of standard_datasets, standard_regression_datasets
\* and regression_datasets has len(X) = len(y); for standard_datasets X is
\* (n_samples, n_features) and y is (n_samples, n_targets).
C10_LeadingDimension ==
    InDatasets =>
        /\ Sized(X) /\ Sized(y) /\ len(X) = len(y)
        /\ chosen = "standard_datasets" =>
              Len(X) = 2 /\ Len(y) = 2 /\ X[1] = y[1]

\* a state in which standard_regression_datasets has called the synthesizer
\* with the default n_informative
Synthesized == chosen = "standard_regression_datasets" /\ synth # NoSynth

\* C11 as stated: the n_informative passed to the synthesizer is
\* max(1, round(0.1 * n_features)) for n_features >= 1 and 0 for n_features = 0.
C11_RoundedTenth ==
    Synthesized =>
        synth.n_informative =
            IF synth.n_features = 0 THEN 0
            ELSE Max(1, RoundHalfEven(synth.n_features, 10))

\* C11 as amended: the n_informative passed to the synthesizer is
\* max(1, int(0.1 * n_features)), the 10% truncated and not rounded, for
\* n_features >= 1 and 0 for n_features = 0.
C11_TruncatedTenth ==
    Synthesized =>
        synth.n_informative =
            IF synth.n_features = 0 THEN 0
            ELSE Max(1, synth.n_features \div 10)

\* 16 features: 1 informative feature, where rounding 1.6 would give 2
C11_Witness ==
    Synthesized /\ synth.n_features = 16 /\ synth.n_informative = 1

\* C12: the default n_informative is 0 when n_features is 0 and otherwise
\* lies in 1..n_features.
C12_DefaultRange ==
    Synthesized =>
        IF synth.n_features = 0
        THEN synth.n_informative = 0
        ELSE 1 <= synth.n_informative /\ synth.n_informative <= synth.n_features

\* no features: no informative feature
C12_Witness ==
    Synthesized /\ synth.n_features = 0 /\ synth.n_informative = 0

---------------------------------------------------------------------------
(* Properties of combined_datasets_strategy *)

Sampled == gen = "combined" /\ pc = "combined_drawn"

\* C13: every sample of a combined strategy is drawn from exactly one of
\* its sources, built with the shared n_samples and n_features, so it lies
\* in that source's output domain; every value of every source can be
\* drawn (no source is starved); the values that can be drawn are the same
\* whatever name and doc were given.
C13_DrawnFromOneSource ==
    Sampled =>
        /\ chosen \in meta.sources
        /\ [source |-> chosen, X |-> X, y |-> y, synth |-> synth]
              \in DatasetSource(chosen, NSamples, NFeatures)
        /\ \A dataset \in meta.sources :
              DatasetSource(dataset, NSamples, NFeatures) \subseteq CombinedValues(meta)
        /\ CombinedValues(meta)
              = CombinedValues(Metadata(meta.sources, "None", "None"))

\* regression_datasets: a sample of standard_regression_datasets that
\* follows a sample of standard_datasets from the same strategy
C13_Witness ==
    /\ Sampled /\ meta.name = "regression_datasets"
    /\ meta.sources = DatasetFunctions
    /\ prev_chosen = "standard_datasets"
    /\ chosen = "standard_regression_datasets"

---------------------------------------------------------------------------
(* Properties of the import helpers *)

SafeCall == gen = "import" /\ call.function \in {"safe_import", "safe_import_from"}

\* the name the placeholder is built with
Target == IF call.function = "safe_import_from"
            THEN <<call.args[1], ".", call.args[2]>>
            ELSE <<call.args[1]>>

\* the exception the import or the attribute lookup produces, "" for none
Failure ==
    IF env.import_module # "ok" THEN env.import_module
    ELSE IF call.function = "safe_import_from" /\ env.getattr # "ok"
         THEN env.getattr
    ELSE ""

ExpectedMsg ==
    IF call.msg = NoMsg THEN Target \o <<" could not be imported">> ELSE call.msg

Used == pc = "done" /\ use # NoUse

\* C15 as stated: safe_import and safe_import_from never raise; on any
\* failure they return a placeholder, on success the module or symbol; every
\* attribute access or call on the placeholder raises UnavailableImportError
\* with the supplied message, or '<symbol> could not be imported'.
C15_NeverRaises ==
    SafeCall =>
        /\ imported # NoImport
        /\ Failure # "" =>
              imported = [kind |-> "missing", of |-> Target, msg |-> ExpectedMsg]
        /\ Failure = "" =>
              /\ imported.kind = IF call.function = "safe_import"
                                   THEN "module" ELSE "symbol"
              /\ imported.of = Target
        /\ (Used /\ imported.kind = "missing") =>
              outcome = "UnavailableImportError" /\ use.msg = ExpectedMsg

\* C15 as amended: safe_import and safe_import_from never raise an
\* Exception; a failure that is an Exception gives a placeholder, a failure
\* that is not (KeyboardInterrupt, SystemExit) propagates; success gives
\* the module or symbol.  A call of the placeholder, and an access to an
\* attribute that the ordinary lookup does not find on it, raises
\* UnavailableImportError with the supplied message, or '<symbol> could not
\* be imported'; _msg and the attributes of object are returned.
C15_NeverRaisesException ==
    SafeCall =>
        /\ imported = NoImport <=> (Failure # "" /\ ~IsException(Failure))
        /\ imported = NoImport => pc = "done" /\ outcome = Failure
        /\ (Failure # "" /\ IsException(Failure)) =>
              imported = [kind |-> "missing", of |-> Target, msg |-> ExpectedMsg]
        /\ Failure = "" =>
              /\ imported.kind = IF call.function = "safe_import"
                                   THEN "module" ELSE "symbol"
              /\ imported.of = Target
        /\ (Used /\ imported.kind = "missing") =>
              IF use.how = "getattr" /\ use.name \in {"_msg", "__class__"}
              THEN outcome = "returned"
              ELSE outcome = "UnavailableImportError" /\ use.msg = ExpectedMsg

\* safe_import_from without a message, the symbol missing from the module:
\* reading __version__ of the placeholder raises with the default message
C15_Witness ==
    /\ SafeCall /\ Used
    /\ call.function = "safe_import_from" /\ call.msg = NoMsg
    /\ env.import_module = "ok" /\ env.getattr = "AttributeError"
    /\ use.how = "getattr" /\ use.name = "__version__"
    /\ outcome = "UnavailableImportError"
    /\ use.msg = <<call.args[1], ".", call.args[2], " could not be imported">>

\* gpu_only_import called with the module name alone, as gpu_only_import('numba')
GpuCall == gen = "import" /\ call.function = "gpu_only_import" /\ Len(call.args) = 1

\* C16: gpu_only_import('<module>') returns the module when the import
\* succeeds; it raises only when the import fails on a CUDA build; on a
\* CPU-only build a failed import gives a placeholder with the message
\* '<module> is not installed in CPU-only installations'.
C16_GpuOnlyImport ==
    GpuCall =>
        /\ env.import_module = "ok" =>
              imported = [kind |-> "module", of |-> <<call.args[1]>>, msg |-> <<>>]
        /\ imported = NoImport =>
              env.import_module # "ok" /\ env.BUILT_WITH_CUDA
        /\ (env.import_module \in {"ImportError", "RuntimeError"}
              /\ ~env.BUILT_WITH_CUDA) =>
              /\ imported.kind = "missing"
              /\ imported.msg = <<call.args[1],
                                  " is not installed in CPU-only installations">>

---------------------------------------------------------------------------
(* Properties of cuml.__getattr__ *)

InGetattr == gen = "getattr" /\ pc = "done"

\* C17: after any sequence of lookups through the package's __getattr__ at
\* most one GlobalSettings object has been created; a lookup of
\* 'global_settings' returns the stored object, which is the one stored
\* before the lookup if there was one; a lookup of another name raises
\* AttributeError and leaves the stored settings as they were.
C17_OneGlobalSettings ==
    /\ created <= 1
    /\ settings # Absent <=> created = 1
    /\ (InGetattr /\ lookup.name = "global_settings") =>
          /\ outcome = "returned"
          /\ lookup.returned = settings /\ settings # Absent
          /\ lookup.before # Absent => lookup.returned = lookup.before
    /\ (InGetattr /\ lookup.name # "global_settings") =>
          /\ outcome = "AttributeError"
          /\ settings = lookup.before

\* a later lookup of 'global_settings': the settings were stored already and
\* the same object comes back
C17_Witness ==
    /\ InGetattr /\ lookup.name = "global_settings"
    /\ lookup.before # Absent /\ lookup.returned = lookup.before
    /\ created = 1

====
